---------------------------- MODULE Spec2Model ----------------------------
(***************************************************************************)
(* Interview test generator: the prompt builder and the two-provider       *)
(* generation dispatcher of app1.py, and the single-provider variant of    *)
(* app.py, together with the Streamlit button handler that drives them.    *)
(*                                                                         *)
(* Strings are sequences of tokens.  A token is a piece of text that the   *)
(* code never splits; decimal numbers are one token per digit.  The few    *)
(* non-ASCII characters of the prompt template (an en dash, a curly        *)
(* apostrophe) are written "-".  JSON bodies are trees of records, Python  *)
(* results are a value or an exception.                                    *)
(***************************************************************************)
EXTENDS Integers, Sequences, FiniteSets, TLC

VARIABLES
    app,             \* which entry point runs: "app" (app.py) or "app1" (app1.py)
    HF_API_TOKEN,    \* os.getenv("HF_API_KEY")
    GEMINI_API_KEY,  \* os.getenv("GEMINI_API_KEY")
    pc,              \* where the click / the call stands
    caller,          \* "ui" for the button handler, "direct" for any other caller
    req,             \* the six arguments of generate_interview_test
    prompt,          \* the prompt built for this call
    calls,           \* the requests.post calls issued, in order, by provider
    hf_response,     \* what the Hugging Face post came back with
    gemini_response, \* what the Gemini post came back with
    hf_error,        \* the exception bound by "except Exception as hf_error"
    gemini_error,    \* the exception bound by "except Exception as gemini_error"
    outcome,         \* what generate_interview_test returned or raised
    ui               \* what the form shows

vars == <<app, HF_API_TOKEN, GEMINI_API_KEY, pc, caller, req, prompt, calls,
          hf_response, gemini_response, hf_error, gemini_error, outcome, ui>>

----------------------------------------------------------------------------
(* Bounds of the model *)

\* longest job description, in tokens, the prompt builder is applied to
MaxJdLen == 2
\* largest MCQ / short-answer count the prompt builder is applied to
MaxCount == 2

----------------------------------------------------------------------------
(* Token strings *)

Digit(d) ==
    CASE d = 0 -> "0" [] d = 1 -> "1" [] d = 2 -> "2" [] d = 3 -> "3"
      [] d = 4 -> "4" [] d = 5 -> "5" [] d = 6 -> "6" [] d = 7 -> "7"
      [] d = 8 -> "8" [] d = 9 -> "9"

RECURSIVE DecStr(_)
\* the decimal rendering of a natural number by an f-string, one token per digit
DecStr(n) == IF n < 10 THEN <<Digit(n)>> ELSE DecStr(n \div 10) \o <<Digit(n % 10)>>

\* t occurs in s as a contiguous run of tokens (Python's "t in s")
Contains(s, t) ==
    \E i \in 0..(Len(s) - Len(t)) : \A j \in 1..Len(t) : s[i + j] = t[j]

Whitespace == {" ", "\n"}

\* jd_input.strip() == ""
IsBlank(s) == \A i \in 1..Len(s) : s[i] \in Whitespace

----------------------------------------------------------------------------
(* JSON values and the Python operations the code applies to them *)

JNull == [k |-> "null", s |-> <<>>, e |-> <<>>, d |-> <<>>]
JStr(s) == [k |-> "str", s |-> s, e |-> <<>>, d |-> <<>>]
JList(e) == [k |-> "list", s |-> <<>>, e |-> e, d |-> <<>>]
JDict(d) == [k |-> "dict", s |-> <<>>, e |-> <<>>, d |-> d]
KV(key, val) == [key |-> key, val |-> val]

NoExc == [type |-> "none", msg |-> <<>>]
Exc(type, msg) == [type |-> type, msg |-> msg]
Ok(v) == [ok |-> TRUE, val |-> v, exc |-> NoExc]
Raise(type, msg) == [ok |-> FALSE, val |-> JNull, exc |-> Exc(type, msg)]

TypeName(j) ==
    CASE j.k = "null" -> "NoneType" [] j.k = "str" -> "str"
      [] j.k = "list" -> "list" [] j.k = "dict" -> "dict"

\* key in obj, for a dict
HasKey(j, key) == \E i \in 1..Len(j.d) : j.d[i].key = key

\* 'key' in obj
In(key, j) ==
    CASE j.k = "dict" -> Ok(HasKey(j, key))
      [] j.k = "list" -> Ok(\E i \in 1..Len(j.e) : j.e[i] = JStr(<<key>>))
      [] j.k = "str" -> Ok(Contains(j.s, <<key>>))
      [] OTHER -> Raise("TypeError", <<"argument of type '", TypeName(j), "' is not iterable">>)

\* len(obj)
PyLen(j) ==
    CASE j.k = "dict" -> Ok(Len(j.d))
      [] j.k = "list" -> Ok(Len(j.e))
      [] j.k = "str" -> Ok(Len(j.s))
      [] OTHER -> Raise("TypeError", <<"object of type '", TypeName(j), "' has no len()">>)

\* obj[0]
Index0(j) ==
    CASE j.k = "list" ->
            IF Len(j.e) > 0 THEN Ok(j.e[1])
            ELSE Raise("IndexError", <<"list index out of range">>)
      [] j.k = "str" ->
            IF Len(j.s) > 0 THEN Ok(JStr(<<j.s[1]>>))
            ELSE Raise("IndexError", <<"string index out of range">>)
      [] j.k = "dict" -> Raise("KeyError", <<"0">>)
      [] OTHER -> Raise("TypeError", <<"'", TypeName(j), "' object is not subscriptable">>)

\* obj['key']
Item(j, key) ==
    CASE j.k = "dict" ->
            IF HasKey(j, key)
            THEN Ok(j.d[CHOOSE i \in 1..Len(j.d) : j.d[i].key = key].val)
            ELSE Raise("KeyError", <<"'", key, "'">>)
      [] j.k = "list" ->
            Raise("TypeError", <<"list indices must be integers or slices, not str">>)
      [] j.k = "str" -> Raise("TypeError", <<"string indices must be integers">>)
      [] OTHER -> Raise("TypeError", <<"'", TypeName(j), "' object is not subscriptable">>)

RECURSIVE Repr(_), ReprItems(_), ReprPairs(_)
\* repr(obj)
Repr(j) ==
    CASE j.k = "str" -> <<"'">> \o j.s \o <<"'">>
      [] j.k = "null" -> <<"None">>
      [] j.k = "list" -> <<"[">> \o ReprItems(j.e) \o <<"]">>
      [] j.k = "dict" -> <<"{">> \o ReprPairs(j.d) \o <<"}">>
ReprItems(es) ==
    IF es = <<>> THEN <<>>
    ELSE Repr(Head(es)) \o (IF Len(es) > 1 THEN <<", ">> \o ReprItems(Tail(es)) ELSE <<>>)
ReprPairs(ps) ==
    IF ps = <<>> THEN <<>>
    ELSE <<"'", Head(ps).key, "'", ": ">> \o Repr(Head(ps).val)
         \o (IF Len(ps) > 1 THEN <<", ">> \o ReprPairs(Tail(ps)) ELSE <<>>)

\* str(obj)
PyStr(j) == IF j.k = "str" THEN j.s ELSE Repr(j)

----------------------------------------------------------------------------
(* HTTP responses of the two providers *)

\* raw bodies (response.text) the Hugging Face endpoint is taken to send
HFTexts == {
    "[{\"generated_text\": \"TEST-A\"}]",
    "{\"generated_text\": \"TEST-A\"}",
    "[]",
    "[{\"error\": \"x\"}]",
    "[\"x\"]",
    "{\"error\": \"loading\"}",
    "\"queued\"",
    "<html>" }

\* raw bodies (response.text) the Gemini endpoint is taken to send
GeminiTexts == {
    "{\"candidates\": [{\"content\": {\"parts\": [{\"text\": \"TEST-G\"}]}}]}",
    "{\"candidates\": []}",
    "{\"error\": \"loading\"}",
    "{\"candidates\": [{\"finishReason\": \"SAFETY\"}]}",
    "{\"candidates\": [{\"content\": {\"parts\": []}}]}",
    "{\"candidates\": null}",
    "{\"candidates\": \"x\"}",
    "[]",
    "<html>" }

\* status codes the endpoints are taken to answer with
StatusCodes == {200, 404, 503}

HttpResponse(status, text) == [kind |-> "http", status_code |-> status, text |-> text]
\* requests.post raised instead of answering
TransportError == [kind |-> "exc", status_code |-> 0, text |-> ""]
\* no post has come back yet
NoResponse == [kind |-> "none", status_code |-> 0, text |-> ""]

HFResponses ==
    {HttpResponse(st, t) : st \in StatusCodes, t \in HFTexts} \cup {TransportError}
GeminiResponses ==
    {HttpResponse(st, t) : st \in StatusCodes, t \in GeminiTexts} \cup {TransportError}

\* response.json(): the JSON decoding of each raw body above
response_json(response) ==
    CASE response.text = "[{\"generated_text\": \"TEST-A\"}]" ->
            Ok(JList(<<JDict(<<KV("generated_text", JStr(<<"TEST-A">>))>>)>>))
      [] response.text = "{\"generated_text\": \"TEST-A\"}" ->
            Ok(JDict(<<KV("generated_text", JStr(<<"TEST-A">>))>>))
      [] response.text = "[]" -> Ok(JList(<<>>))
      [] response.text = "[{\"error\": \"x\"}]" ->
            Ok(JList(<<JDict(<<KV("error", JStr(<<"x">>))>>)>>))
      [] response.text = "[\"x\"]" -> Ok(JList(<<JStr(<<"x">>)>>))
      [] response.text = "{\"error\": \"loading\"}" ->
            Ok(JDict(<<KV("error", JStr(<<"loading">>))>>))
      [] response.text = "\"queued\"" -> Ok(JStr(<<"queued">>))
      [] response.text
           = "{\"candidates\": [{\"content\": {\"parts\": [{\"text\": \"TEST-G\"}]}}]}" ->
            Ok(JDict(<<KV("candidates", JList(<<JDict(<<KV("content",
                JDict(<<KV("parts",
                    JList(<<JDict(<<KV("text", JStr(<<"TEST-G">>))>>)>>))>>))>>)>>))>>))
      [] response.text = "{\"candidates\": []}" ->
            Ok(JDict(<<KV("candidates", JList(<<>>))>>))
      [] response.text = "{\"candidates\": [{\"finishReason\": \"SAFETY\"}]}" ->
            Ok(JDict(<<KV("candidates",
                JList(<<JDict(<<KV("finishReason", JStr(<<"SAFETY">>))>>)>>))>>))
      [] response.text = "{\"candidates\": [{\"content\": {\"parts\": []}}]}" ->
            Ok(JDict(<<KV("candidates", JList(<<JDict(<<KV("content",
                JDict(<<KV("parts", JList(<<>>))>>))>>)>>))>>))
      [] response.text = "{\"candidates\": null}" ->
            Ok(JDict(<<KV("candidates", JNull)>>))
      [] response.text = "{\"candidates\": \"x\"}" ->
            Ok(JDict(<<KV("candidates", JStr(<<"x">>))>>))
      [] OTHER ->
            Raise("JSONDecodeError", <<"Expecting value: line 1 column 1 (char 0)">>)

\* what requests.post raises when the transport fails
post_error == Raise("ConnectionError", <<"Connection aborted.">>)

----------------------------------------------------------------------------
(* Provider adapters *)

\* mutant: the extraction stops at result['candidates'][0]
GeminiText_WholeCandidate(result) ==
    LET a == Item(result, "candidates") IN
    IF ~a.ok THEN a ELSE Index0(a.val)

\* result['candidates'][0]['content']['parts'][0]['text']
GeminiText(result) ==
    LET a == Item(result, "candidates") IN
    IF ~a.ok THEN a ELSE
    LET b == Index0(a.val) IN
    IF ~b.ok THEN b ELSE
    LET c == Item(b.val, "content") IN
    IF ~c.ok THEN c ELSE
    LET f == Item(c.val, "parts") IN
    IF ~f.ok THEN f ELSE
    LET g == Index0(f.val) IN
    IF ~g.ok THEN g ELSE Item(g.val, "text")

\* 'candidates' in result and len(result['candidates']) > 0
HasCandidates(result) ==
    LET m == In("candidates", result) IN
    IF ~m.ok THEN m
    ELSE IF ~m.val THEN Ok(FALSE)
    ELSE LET c == Item(result, "candidates") IN
         IF ~c.ok THEN c
         ELSE LET n == PyLen(c.val) IN
              IF ~n.ok THEN n ELSE Ok(n.val > 0)

\* mutant: Gemini handled as leniently as Hugging Face, stringifying a body
\* without candidates
generate_with_gemini_Lenient(response) ==
    IF response.kind = "exc" THEN post_error
    ELSE IF response.status_code = 200 THEN
        LET decoded == response_json(response) IN
        IF ~decoded.ok THEN decoded
        ELSE LET has == HasCandidates(decoded.val) IN
             IF ~has.ok THEN has
             ELSE IF has.val THEN GeminiText(decoded.val)
             ELSE Ok(JStr(PyStr(decoded.val)))
    ELSE Raise("Exception", <<"Gemini API error: ">> \o DecStr(response.status_code)
                            \o <<" - ", response.text>>)

\* app1.py generate_with_gemini, from the response of requests.post on
generate_with_gemini(response) ==
    IF response.kind = "exc" THEN post_error
    ELSE IF response.status_code = 200 THEN
        LET decoded == response_json(response) IN
        IF ~decoded.ok THEN decoded
        ELSE LET has == HasCandidates(decoded.val) IN
             IF ~has.ok THEN has
             ELSE IF has.val THEN GeminiText(decoded.val)
             ELSE Raise("Exception", <<"No response from Gemini API">>)
    ELSE Raise("Exception", <<"Gemini API error: ">> \o DecStr(response.status_code)
                            \o <<" - ", response.text>>)

\* the body handling both entry points share: lines 46-52 of app1.py, 67-73 of app.py
hf_output(response) ==
    LET decoded == response_json(response) IN
    IF ~decoded.ok THEN decoded
    ELSE LET output == decoded.val IN
         IF output.k = "list" THEN
             LET first == Index0(output) IN
             IF ~first.ok THEN first ELSE Item(first.val, "generated_text")
         ELSE IF output.k = "dict" /\ HasKey(output, "generated_text") THEN
             Item(output, "generated_text")
         ELSE Ok(JStr(PyStr(output)))

\* app1.py generate_with_huggingface, from the response of requests.post on
generate_with_huggingface(response) ==
    IF response.kind = "exc" THEN post_error
    ELSE IF response.status_code = 200 THEN hf_output(response)
    ELSE Raise("Exception", <<"Hugging Face API error: ">> \o DecStr(response.status_code)
                            \o <<" - ", response.text>>)

\* app.py generate_interview_test from line 64 on: the post and its response
app_generate(response) ==
    IF response.kind = "exc" THEN post_error
    ELSE IF response.status_code = 200 THEN hf_output(response)
    ELSE Ok(JStr(<<"Error: ">> \o DecStr(response.status_code) \o <<" - ", response.text>>))

----------------------------------------------------------------------------
(* Prompt builder *)

CompanyTypes == {"Finance", "Healthcare", "Information Technology (IT) / Software",
                 "Manufacturing", "Retail & E-commerce"}
Levels == {"0-1", "2-5", "More than 5"}

\* the tail every coding section ends with, and the text that makes it a marker
CodingQuestions == " Coding Question(s)"
CodingTail == " (easy to hard) with problem description and expected output.\n"

\* mutant: two coding questions whatever the level
coding_section_AlwaysTwo(level, include_coding) ==
    IF include_coding THEN DecStr(2) \o <<CodingQuestions, CodingTail>> ELSE <<>>

\* coding_section, lines 59-61 of app1.py and 18-20 of app.py
coding_section(level, include_coding) ==
    IF include_coding
    THEN DecStr(IF level = "0-1" THEN 1 ELSE 2) \o <<CodingQuestions, CodingTail>>
    ELSE <<>>

\* {coding_section if coding_section else other}
OrElse(section, other) == IF section # <<>> THEN section ELSE <<other>>

\* the f-string of lines 63-102 of app1.py (22-61 of app.py, whose one difference
\* is the apostrophe of "JD's")
BuildPrompt(a, r) ==
    LET section == coding_section(r.level, r.include_coding) IN
    <<"\n    Do not include job description or repeat inputs in output. response in form of Json.\n\nYou are an expert AI interviewer specializing in technical hiring for software and AI/ML roles.\n\nGiven the following inputs:\n\nJob Description: ">>
    \o r.jd
    \o <<"  \nCandidate Experience Level: ", r.level,
         "  \nIndustry Domain: ", r.company_type,
         "  \nNumber of MCQs: ">>
    \o DecStr(r.num_mcq)
    \o <<"  \nNumber of Short Answer Questions: ">>
    \o DecStr(r.num_short_ans)
    \o <<"  \nInclude Coding Section: ">>
    \o OrElse(section, "No")
    \o <<"\n\nGenerate a comprehensive technical interview test as per the following structure:\n\n",
         "1", ". **Multiple Choice Questions (MCQs)**  \n   - Provide ">>
    \o DecStr(r.num_mcq)
    \o <<" MCQs relevant to the role.  \n   - Each question should have **",
         "4", " options** (A, B, C, D).  \n   - **Clearly indicate the correct option** and provide a **",
         "1", "-", "2", " line explanation**.\n\n",
         "2", ". **Coding Challenge**  \n   ">>
    \o OrElse(section, "Skip this section if not required.")
    \o <<"  \n   - If included, make the problem aligned to the ",
         IF a = "app" THEN "JD-s" ELSE "JD's",
         " core skills.\n   - Provide sample input/output and a brief outline of the expected approach.\n\n",
         "3", ". **Short Answer Questions**  \n   - Provide ">>
    \o DecStr(r.num_short_ans)
    \o <<" questions.  \n   - Each answer should be ", "3", "-", "5",
         " lines long, with technically sound and concise explanations.\n\n**Important Instructions:**  \n- Do **not** include the job description again in the output.  \n- Structure the output with **clear section headings** (MCQs, Coding, Short Answers).  \n- The difficulty and focus should match the candidate's experience level and the domain.\n\nDo not include job description or repeat inputs. Structure your response using markdown in JSON.\n\nReturn only the test.\n\n">>

Request(jd, company_type, level, num_mcq, include_coding, num_short_ans) ==
    [jd |-> jd, company_type |-> company_type, level |-> level, num_mcq |-> num_mcq,
     include_coding |-> include_coding, num_short_ans |-> num_short_ans]

NoRequest == Request(<<>>, "", "", 0, FALSE, 0)

\* tokens a pasted job description is made of
JdTokens == {" ", "Build REST APIs", "2", CodingQuestions}

RECURSIVE SeqsUpTo(_, _)
SeqsUpTo(S, n) ==
    IF n = 0 THEN {<<>>}
    ELSE LET shorter == SeqsUpTo(S, n - 1) IN
         shorter \cup {Append(q, x) : q \in shorter, x \in S}

\* the requests the prompt builder is applied to
PromptRequests ==
    {Request(jd, c, l, m, ic, sa) :
        jd \in SeqsUpTo(JdTokens, MaxJdLen), c \in CompanyTypes, l \in Levels,
        m \in 1..MaxCount, ic \in BOOLEAN, sa \in 1..MaxCount}

\* the slider defaults of the form
DefaultMcq == 5
DefaultShortAns == 2

\* the requests the dispatcher is driven with
DispatchRequests ==
    {Request(jd, "Information Technology (IT) / Software", l, DefaultMcq, ic, DefaultShortAns) :
        jd \in {<<>>, <<" ">>, <<"Build REST APIs">>}, l \in Levels, ic \in BOOLEAN}

----------------------------------------------------------------------------
(* Process configuration: os.getenv of the two credentials *)

Unset == [set |-> FALSE, value |-> ""]
SetTo(v) == [set |-> TRUE, value |-> v]
Credentials == {Unset, SetTo(""), SetTo("secret")}

\* mutant: the test "is not None", which lets an empty credential through
Truthy_NotNone(c) == c.set

\* mutant: no test at all
Truthy_Always(c) == TRUE

\* "if HF_API_TOKEN:", "if GEMINI_API_KEY:" : None and "" are false
Truthy(c) == c.set /\ c.value # ""

----------------------------------------------------------------------------
(* The dispatcher of app1.py *)

\* the classes "except Exception" catches, among those the model raises
ExceptionClasses ==
    {"Exception", "KeyError", "IndexError", "TypeError", "JSONDecodeError", "ConnectionError"}

\* mutant: a handler that catches only what the adapters raise themselves
Caught_OwnOnly(e) == e.type = "Exception"

\* except Exception as hf_error / as gemini_error
Caught(e) == e.type \in ExceptionClasses

\* mutant: only the last error is reported
CombinedMessage_LastOnly(hf, gemini) ==
    <<"Both APIs failed. ", "Gemini", ": ">> \o gemini.msg

\* f"Both APIs failed. HF: {str(hf_error)}, Gemini: {str(gemini_error)}"
CombinedMessage(hf, gemini) ==
    <<"Both APIs failed. ", "HF", ": ">> \o hf.msg \o <<", ", "Gemini", ": ">> \o gemini.msg

NoOutcome == [kind |-> "none", val |-> JNull, exc |-> NoExc]
Returned(v) == [kind |-> "return", val |-> v, exc |-> NoExc]
Raised(e) == [kind |-> "raise", val |-> JNull, exc |-> e]

\* mutant: the outer try without its return, so every call goes on to Gemini
AfterHuggingFace_FallsThrough(r) ==
    /\ hf_error' = r.exc
    /\ pc' = "try_gemini"
    /\ UNCHANGED outcome

\* the end of the outer try: the Hugging Face attempt gave result r
AfterHuggingFace(r) ==
    IF r.ok THEN
        /\ outcome' = Returned(r.val)
        /\ pc' = "returned"
        /\ UNCHANGED hf_error
    ELSE IF Caught(r.exc) THEN
        /\ hf_error' = r.exc
        /\ pc' = "try_gemini"
        /\ UNCHANGED outcome
    ELSE
        /\ outcome' = Raised(r.exc)
        /\ pc' = "raised"
        /\ UNCHANGED hf_error

\* the end of the inner try: the Gemini attempt gave result r
AfterGemini(r) ==
    IF r.ok THEN
        /\ outcome' = Returned(r.val)
        /\ pc' = "returned"
        /\ UNCHANGED gemini_error
    ELSE IF Caught(r.exc) THEN
        /\ gemini_error' = r.exc
        /\ outcome' = Raised(Exc("Exception", CombinedMessage(hf_error, r.exc)))
        /\ pc' = "raised"
    ELSE
        /\ outcome' = Raised(r.exc)
        /\ pc' = "raised"
        /\ UNCHANGED gemini_error

\* generate_interview_test up to the first provider: the prompt, the token test,
\* and either the post to Hugging Face or the missing-token exception
App1_TryHuggingFace ==
    /\ app = "app1"
    /\ pc = "called"
    /\ prompt' = BuildPrompt(app, req)
    /\ IF Truthy(HF_API_TOKEN) THEN
           /\ calls' = Append(calls, "HF")
           /\ pc' = "hf_wait"
           /\ UNCHANGED <<hf_error, outcome>>
       ELSE
           /\ AfterHuggingFace(Raise("Exception", <<"Hugging Face API token not found">>))
           /\ UNCHANGED calls
    /\ UNCHANGED <<app, HF_API_TOKEN, GEMINI_API_KEY, caller, req, hf_response,
                   gemini_response, gemini_error, ui>>

\* the Hugging Face endpoint answers (or the transport fails)
App1_HuggingFaceResponds ==
    /\ app = "app1"
    /\ pc = "hf_wait"
    /\ \E response \in HFResponses :
           /\ hf_response' = response
           /\ AfterHuggingFace(generate_with_huggingface(response))
    /\ UNCHANGED <<app, HF_API_TOKEN, GEMINI_API_KEY, caller, req, prompt, calls,
                   gemini_response, gemini_error, ui>>

\* the except branch: the key test, and either the post to Gemini or the
\* missing-key exception
App1_TryGemini ==
    /\ app = "app1"
    /\ pc = "try_gemini"
    /\ IF Truthy(GEMINI_API_KEY) THEN
           /\ calls' = Append(calls, "Gemini")
           /\ pc' = "gemini_wait"
           /\ UNCHANGED <<gemini_error, outcome>>
       ELSE
           /\ AfterGemini(Raise("Exception", <<"Gemini API key not found">>))
           /\ UNCHANGED calls
    /\ UNCHANGED <<app, HF_API_TOKEN, GEMINI_API_KEY, caller, req, prompt,
                   hf_response, gemini_response, hf_error, ui>>

\* the Gemini endpoint answers (or the transport fails)
App1_GeminiResponds ==
    /\ app = "app1"
    /\ pc = "gemini_wait"
    /\ \E response \in GeminiResponses :
           /\ gemini_response' = response
           /\ AfterGemini(generate_with_gemini(response))
    /\ UNCHANGED <<app, HF_API_TOKEN, GEMINI_API_KEY, caller, req, prompt, calls,
                   hf_response, hf_error, ui>>

----------------------------------------------------------------------------
(* generate_interview_test of app.py: one provider, no token test *)

App_Post ==
    /\ app = "app"
    /\ pc = "called"
    /\ prompt' = BuildPrompt(app, req)
    /\ calls' = Append(calls, "HF")
    /\ pc' = "hf_wait"
    /\ UNCHANGED <<app, HF_API_TOKEN, GEMINI_API_KEY, caller, req, hf_response,
                   gemini_response, hf_error, gemini_error, outcome, ui>>

App_Responds ==
    /\ app = "app"
    /\ pc = "hf_wait"
    /\ \E response \in HFResponses :
           LET r == app_generate(response) IN
           /\ hf_response' = response
           /\ IF r.ok THEN outcome' = Returned(r.val) /\ pc' = "returned"
              ELSE outcome' = Raised(r.exc) /\ pc' = "raised"
    /\ UNCHANGED <<app, HF_API_TOKEN, GEMINI_API_KEY, caller, req, prompt, calls,
                   gemini_response, hf_error, gemini_error, ui>>

----------------------------------------------------------------------------
(* The Generate Test button handler, and a caller that is not the form *)

\* the handler up to the call of generate_interview_test
Click ==
    /\ pc = "idle"
    /\ \E r \in DispatchRequests :
        /\ req' = r
        /\ IF IsBlank(r.jd) THEN
               ui' = "warning" /\ pc' = "done"
           ELSE IF app = "app1" /\ ~Truthy(HF_API_TOKEN) /\ ~Truthy(GEMINI_API_KEY) THEN
               ui' = "no_keys" /\ pc' = "done"
           ELSE
               ui' = "spinner" /\ pc' = "called"
    /\ caller' = "ui"
    /\ UNCHANGED <<app, HF_API_TOKEN, GEMINI_API_KEY, prompt, calls, hf_response,
                   gemini_response, hf_error, gemini_error, outcome>>

\* the handler after the call: st.success with the result, or st.error
Display ==
    /\ caller = "ui"
    /\ pc \in {"returned", "raised"}
    /\ ui' = (IF pc = "returned" THEN "success" ELSE "error")
    /\ pc' = "done"
    /\ UNCHANGED <<app, HF_API_TOKEN, GEMINI_API_KEY, caller, req, prompt, calls,
                   hf_response, gemini_response, hf_error, gemini_error, outcome>>

\* generate_interview_test called as a function, with no form in front of it
DirectCall ==
    /\ pc = "idle"
    /\ \E r \in DispatchRequests : req' = r
    /\ caller' = "direct"
    /\ pc' = "called"
    /\ UNCHANGED <<app, HF_API_TOKEN, GEMINI_API_KEY, prompt, calls, hf_response,
                   gemini_response, hf_error, gemini_error, outcome, ui>>

----------------------------------------------------------------------------
(* Specifications *)

Init ==
    /\ app \in {"app", "app1"}
    /\ HF_API_TOKEN \in Credentials
    /\ GEMINI_API_KEY \in (IF app = "app1" THEN Credentials ELSE {Unset})
    /\ pc = "idle"
    /\ caller = "none"
    /\ req = NoRequest
    /\ prompt = <<>>
    /\ calls = <<>>
    /\ hf_response = NoResponse
    /\ gemini_response = NoResponse
    /\ hf_error = NoExc
    /\ gemini_error = NoExc
    /\ outcome = NoOutcome
    /\ ui = "none"

Next ==
    \/ Click
    \/ DirectCall
    \/ App1_TryHuggingFace
    \/ App1_HuggingFaceResponds
    \/ App1_TryGemini
    \/ App1_GeminiResponds
    \/ App_Post
    \/ App_Responds
    \/ Display

Spec == Init /\ [][Next]_vars

\* the prompt builder alone, applied to every request of PromptRequests
InitPrompt ==
    /\ app \in {"app", "app1"}
    /\ HF_API_TOKEN = Unset
    /\ GEMINI_API_KEY = Unset
    /\ pc = "build"
    /\ caller = "builder"
    /\ req \in PromptRequests
    /\ prompt = <<>>
    /\ calls = <<>>
    /\ hf_response = NoResponse
    /\ gemini_response = NoResponse
    /\ hf_error = NoExc
    /\ gemini_error = NoExc
    /\ outcome = NoOutcome
    /\ ui = "none"

ApplyBuildPrompt ==
    /\ pc = "build"
    /\ prompt' = BuildPrompt(app, req)
    /\ pc' = "built"
    /\ UNCHANGED <<app, HF_API_TOKEN, GEMINI_API_KEY, caller, req, calls, hf_response,
                   gemini_response, hf_error, gemini_error, outcome, ui>>

NextPrompt == ApplyBuildPrompt

SpecPrompt == InitPrompt /\ [][NextPrompt]_vars

----------------------------------------------------------------------------
(* Vocabulary of the properties *)

\* a credential the environment does not provide: unset, or set to nothing
Absent(c) == c \in {Unset, SetTo("")}

\* the dispatcher of app1.py has finished
Finished == pc \in {"returned", "raised"} \/ (pc = "done" /\ outcome # NoOutcome)

\* the dispatcher of app1.py is past its first provider test
Entered ==
    /\ app = "app1"
    /\ pc \in {"hf_wait", "try_gemini", "gemini_wait"} \/ Finished

\* the failure reasons recorded so far, in order
Reasons == SelectSeq(<<hf_error, gemini_error>>, LAMBDA e : e # NoExc)

RECURSIVE InOrderFrom(_, _, _)
\* the strings of parts occur in s one after the other, from position from on
InOrderFrom(s, parts, from) ==
    IF parts = <<>> THEN TRUE
    ELSE LET t == Head(parts) IN
         \E i \in from..(Len(s) - Len(t)) :
            /\ \A j \in 1..Len(t) : s[i + j] = t[j]
            /\ InOrderFrom(s, Tail(parts), i + Len(t))

\* the single error of the dispatcher when every provider failed
IsCombinedFailure(e) == e.type = "Exception" /\ Contains(e.msg, <<"Both APIs failed. ">>)

\* the reason of a non-200 answer carries the status code and the body text
CarriesStatusAndBody(e, response) ==
    /\ Contains(e.msg, DecStr(response.status_code))
    /\ Contains(e.msg, <<response.text>>)

HFAnswered == hf_response.kind = "http"
GeminiAnswered == gemini_response.kind = "http"

----------------------------------------------------------------------------
(* C1 *)

HFSucceeded == app = "app1" /\ HFAnswered /\ generate_with_huggingface(hf_response).ok

\* C1: whenever the Hugging Face attempt of app1.py ends in success, the call
\* returns exactly the text that attempt extracted, and no request to Gemini is
\* issued in that invocation.
C1_PrimarySuccessShortCircuits ==
    HFSucceeded =>
        /\ outcome = Returned(generate_with_huggingface(hf_response).val)
        /\ calls = <<"HF">>
        /\ gemini_response = NoResponse
        /\ hf_error = NoExc /\ gemini_error = NoExc
        /\ (hf_response = HttpResponse(200, "[{\"generated_text\": \"TEST-A\"}]")
                => outcome.val = JStr(<<"TEST-A">>))

C1_Witness ==
    /\ HFSucceeded
    /\ hf_response = HttpResponse(200, "[{\"generated_text\": \"TEST-A\"}]")
    /\ ~Absent(GEMINI_API_KEY)
    /\ pc = "done" /\ ui = "success"

----------------------------------------------------------------------------
(* C2 *)

ValidGeminiText == "{\"candidates\": [{\"content\": {\"parts\": [{\"text\": \"TEST-G\"}]}}]}"

HFRefusedGeminiValid ==
    /\ app = "app1"
    /\ ~Absent(HF_API_TOKEN) /\ ~Absent(GEMINI_API_KEY)
    /\ HFAnswered /\ hf_response.status_code # 200
    /\ gemini_response = HttpResponse(200, ValidGeminiText)

\* C2: with both credentials present, a non-200 answer of Hugging Face followed
\* by a well-shaped 200 answer of Gemini makes the call return
\* candidates[0].content.parts[0].text, and at the moment the Gemini request is
\* issued exactly one failure reason, that of Hugging Face, has been recorded.
C2_FallbackReturnsSecondary ==
    /\ HFRefusedGeminiValid =>
        /\ outcome = Returned(JStr(<<"TEST-G">>))
        /\ calls = <<"HF", "Gemini">>
    /\ (app = "app1" /\ pc = "gemini_wait") =>
        /\ Len(Reasons) = 1
        /\ Reasons[1] = hf_error
        /\ calls[Len(calls)] = "Gemini"
        /\ (HFAnswered /\ hf_response.status_code # 200 =>
                /\ Contains(hf_error.msg, <<"Hugging Face API error: ">>)
                /\ CarriesStatusAndBody(hf_error, hf_response))

C2_Witness ==
    /\ HFRefusedGeminiValid
    /\ pc = "returned"
    /\ Len(Reasons) = 1

----------------------------------------------------------------------------
(* C3 *)

\* what the Hugging Face attempt of app1.py came to, read off the configuration
\* and the response
HFAttempt ==
    IF ~Truthy(HF_API_TOKEN) THEN Raise("Exception", <<"Hugging Face API token not found">>)
    ELSE generate_with_huggingface(hf_response)
GeminiAttempt ==
    IF ~Truthy(GEMINI_API_KEY) THEN Raise("Exception", <<"Gemini API key not found">>)
    ELSE generate_with_gemini(gemini_response)

BothFailed ==
    /\ app = "app1" /\ Finished
    /\ ~HFAttempt.ok /\ ~GeminiAttempt.ok

\* C3: when both attempts of app1.py fail, whatever the causes, exactly one
\* error is raised; its message names HF and Gemini and holds both reasons,
\* the Hugging Face name and reason before the Gemini name and reason.
C3_CombinedFailureMessage ==
    BothFailed =>
        /\ outcome.kind = "raise"
        /\ outcome.exc.type = "Exception"
        /\ hf_error = HFAttempt.exc
        /\ gemini_error = GeminiAttempt.exc
        /\ InOrderFrom(outcome.exc.msg,
              <<(<<"HF">>), HFAttempt.exc.msg, (<<"Gemini">>), GeminiAttempt.exc.msg>>, 0)

C3_Witness ==
    /\ BothFailed
    /\ hf_error.type = "IndexError"
    /\ gemini_response.kind = "http" /\ gemini_response.status_code = 503
    /\ pc = "done" /\ ui = "error"

----------------------------------------------------------------------------
(* C4 *)

NoKeys == app = "app1" /\ Absent(HF_API_TOKEN) /\ Absent(GEMINI_API_KEY)

\* C4 as claimed: with neither credential set, generate_interview_test of
\* app1.py raises an outcome of its own, distinguishable from the
\* all-providers-failed one, and issues no request.  (Through the form the
\* function is never entered and raises nothing; called as a function it raises
\* the combined failure.)
C4_Original ==
    (NoKeys /\ ~IsBlank(req.jd) /\ pc \in {"returned", "raised", "done"}) =>
        /\ outcome.kind = "raise"
        /\ ~IsCombinedFailure(outcome.exc)
        /\ calls = <<>>

\* C4 as amended: with neither credential set no request is issued to either
\* provider; the button handler, for a non-blank job description, shows its
\* own "No API keys configured" error without calling generate_interview_test,
\* and generate_interview_test itself, when called, raises the ordinary combined
\* failure carrying the two credential-missing reasons.
C4_NoKeysHandledByForm ==
    /\ NoKeys =>
        /\ calls = <<>>
        /\ hf_response = NoResponse /\ gemini_response = NoResponse
        /\ (caller = "ui" /\ pc = "done" /\ ~IsBlank(req.jd)) =>
              /\ ui = "no_keys"
              /\ outcome = NoOutcome
              /\ prompt = <<>>
        /\ pc \in {"returned", "raised"} =>
              /\ caller = "direct"
              /\ outcome = Raised(Exc("Exception",
                    <<"Both APIs failed. ", "HF", ": ", "Hugging Face API token not found",
                      ", ", "Gemini", ": ", "Gemini API key not found">>))
    /\ ui = "no_keys" => NoKeys /\ outcome = NoOutcome
    /\ ui = "error" => outcome.kind = "raise"

C4_Witness ==
    /\ NoKeys
    /\ HF_API_TOKEN = SetTo("") /\ GEMINI_API_KEY = Unset
    /\ caller = "ui" /\ ~IsBlank(req.jd)
    /\ ui = "no_keys" /\ pc = "done"

----------------------------------------------------------------------------
(* C5 *)

\* C5: in app1.py a provider whose credential is absent is never sent a
\* request and contributes a credential-missing reason, and the other provider
\* is still attempted: with only the Gemini key the Gemini request is issued and
\* no Hugging Face one; with only the Hugging Face token the Hugging Face
\* request is issued and, if it fails, no Gemini one.
C5_MissingCredentialSkipsProvider ==
    Entered =>
        /\ Absent(HF_API_TOKEN) =>
              /\ \A i \in 1..Len(calls) : calls[i] # "HF"
              /\ hf_response = NoResponse
              /\ hf_error = Exc("Exception", <<"Hugging Face API token not found">>)
        /\ Absent(GEMINI_API_KEY) =>
              /\ \A i \in 1..Len(calls) : calls[i] # "Gemini"
              /\ gemini_response = NoResponse
              /\ (Finished /\ ~HFAttempt.ok) =>
                    gemini_error = Exc("Exception", <<"Gemini API key not found">>)
        /\ (Absent(HF_API_TOKEN) /\ ~Absent(GEMINI_API_KEY) /\ pc # "try_gemini") =>
              calls = <<"Gemini">>
        /\ (~Absent(HF_API_TOKEN) /\ Absent(GEMINI_API_KEY)) =>
              calls = <<"HF">>

C5_Witness ==
    /\ app = "app1"
    /\ Absent(HF_API_TOKEN) /\ ~Absent(GEMINI_API_KEY)
    /\ calls = <<"Gemini">>
    /\ hf_error = Exc("Exception", <<"Hugging Face API token not found">>)
    /\ outcome = Returned(JStr(<<"TEST-G">>))

----------------------------------------------------------------------------
(* C6 *)

\* C6: whatever fails inside a provider attempt of app1.py, a finished call
\* has either returned a text or raised the single combined failure; no
\* exception of a provider attempt reaches the caller as it was raised.
C6_OnlyCombinedFailureCrosses ==
    app = "app1" =>
        /\ Finished => outcome.kind \in {"return", "raise"}
        /\ outcome.kind = "raise" =>
              /\ IsCombinedFailure(outcome.exc)
              /\ outcome.exc # hf_error /\ outcome.exc # gemini_error
              /\ Len(Reasons) = 2
        /\ outcome.kind = "return" => outcome.exc = NoExc

C6_Witness ==
    /\ app = "app1" /\ Finished
    /\ hf_error.type = "JSONDecodeError"
    /\ gemini_error.type = "KeyError"
    /\ IsCombinedFailure(outcome.exc)

----------------------------------------------------------------------------
(* C7 *)

HFRefused == HFAnswered /\ hf_response.status_code # 200

\* C7: in both entry points a non-200 answer of the Hugging Face endpoint is a
\* failure whose reason carries the status code and the body text; it is never
\* handed back to the caller as generated text.
C7_Non200IsFailure ==
    /\ (app = "app1" /\ HFRefused) =>
          /\ hf_error.type = "Exception"
          /\ CarriesStatusAndBody(hf_error, hf_response)
          /\ outcome.kind = "return" => ~Contains(outcome.val.s, <<hf_response.text>>)
    /\ (app = "app" /\ HFRefused) =>
          /\ outcome.kind = "raise"
          /\ CarriesStatusAndBody(outcome.exc, hf_response)

----------------------------------------------------------------------------
(* C8 *)

\* the coding-section marker "<N> Coding Question(s)"
Marker(n) == <<Digit(n), CodingQuestions>>
HasMarker(s) == \E n \in 0..9 : Contains(s, Marker(n))

\* the N the claim gives a level
ExpectedN(level) == IF level = "0-1" THEN 1 ELSE 2

\* C8 as claimed: the built prompt contains the marker "<N> Coding Question(s)"
\* if and only if include_coding is true, and then N is 1 for level "0-1" and 2
\* for every other level.
C8_Original ==
    pc = "built" =>
        /\ HasMarker(prompt) <=> req.include_coding
        /\ \A n \in 0..9 : Contains(prompt, Marker(n)) => n = ExpectedN(req.level)

\* C8 as amended: for a job description that does not itself contain a
\* "<N> Coding Question(s)" marker, the built prompt contains the marker if and
\* only if include_coding is true, and then N is 1 for level "0-1" and 2 for
\* every other level.
C8_CodingMarker ==
    (pc = "built" /\ ~HasMarker(req.jd)) =>
        /\ HasMarker(prompt) <=> req.include_coding
        /\ req.include_coding => Contains(prompt, Marker(ExpectedN(req.level)))
        /\ \A n \in 0..9 : Contains(prompt, Marker(n)) => n = ExpectedN(req.level)

C8_Witness ==
    /\ pc = "built"
    /\ req.include_coding /\ req.level = "0-1"
    /\ Contains(req.jd, <<"2">>) /\ ~HasMarker(req.jd)
    /\ Contains(prompt, Marker(1)) /\ ~Contains(prompt, Marker(2))

----------------------------------------------------------------------------
(* C9 *)

\* a list whose first element has generated_text, or an object with generated_text
ExpectedHFShape(j) ==
    \/ j.k = "list" /\ Len(j.e) > 0 /\ j.e[1].k = "dict" /\ HasKey(j.e[1], "generated_text")
    \/ j.k = "dict" /\ HasKey(j, "generated_text")

\* a 200 answer of Hugging Face whose body decodes to some other shape
HFOtherShape ==
    /\ HFAnswered /\ hf_response.status_code = 200
    /\ response_json(hf_response).ok
    /\ ~ExpectedHFShape(response_json(hf_response).val)

\* C9: every 200 body of Hugging Face of another shape than the two expected
\* ones (an empty list, a list whose first element lacks generated_text, an
\* object without generated_text) is a success whose text is the stringified
\* body; it never raises and never makes app1.py fall back to Gemini.
C9_OtherShapesStringified ==
    HFOtherShape =>
        /\ outcome = Returned(JStr(PyStr(response_json(hf_response).val)))
        /\ hf_error = NoExc
        /\ calls = <<"HF">>

----------------------------------------------------------------------------
(* C10 *)

\* the decoded body has no candidates key, or an empty candidates array
CandidatesMissingOrEmpty(j) ==
    \/ ~(j.k = "dict" /\ HasKey(j, "candidates"))
    \/ LET c == Item(j, "candidates").val IN c.k = "list" /\ Len(c.e) = 0

Gemini200 ==
    /\ app = "app1"
    /\ GeminiAnswered /\ gemini_response.status_code = 200

\* C10: a 200 answer of Gemini is a success only if its body holds a non-empty
\* candidates array, and the text returned is then
\* candidates[0].content.parts[0].text; a 200 body whose candidates are missing
\* or empty is a failure and is never returned as text.
C10_GeminiNeedsCandidates ==
    Gemini200 =>
        LET decoded == response_json(gemini_response) IN
        /\ outcome.kind = "return" =>
              /\ decoded.ok
              /\ ~CandidatesMissingOrEmpty(decoded.val)
              /\ outcome.val = decoded.val.d[1].val.e[1].d[1].val.d[1].val.e[1].d[1].val
              /\ outcome.val = JStr(<<"TEST-G">>)
        /\ (decoded.ok /\ CandidatesMissingOrEmpty(decoded.val)) =>
              /\ outcome.kind = "raise"
              /\ gemini_error = Exc("Exception", <<"No response from Gemini API">>)
              /\ Contains(outcome.exc.msg, <<"No response from Gemini API">>)

C10_Witness ==
    /\ Gemini200
    /\ gemini_response.text = "{\"candidates\": []}"
    /\ outcome.kind = "raise"
    /\ pc = "done"

=============================================================================
